---- MODULE Spec2Model ----
(***************************************************************************)
(* Phantom Auto-Activator (src/unnamed/part_000): the Streamlit script's   *)
(* session state, its button handlers, and the automation_loop threads the *)
(* start handler spawns.  The script thread and the loop threads interleave *)
(* at every access to st.session_state and at every blocking call (HTTP    *)
(* request, time.sleep).                                                   *)
(*                                                                         *)
(* Not modelled: the timestamp and the interpolated text of a log line (a  *)
(* line is its message kind), and the wall clock (each second of a sleep   *)
(* is one step; "5 s since last_status_check" is a free choice).  A local  *)
(* of automation_loop is cleared once no later statement reads it.  The    *)
(* log line that follows a launch's outcome is appended in the same step   *)
(* as the outcome.                                                         *)
(*                                                                         *)
(* Specifications: Spec is the whole app; SpecLoop is automation_loop      *)
(* called on its own, with the stop request; SpecRun is one run with the   *)
(* handlers that act during it, and SpecQuiet one run left to itself, both *)
(* counting the launches that returned True; SpecController is             *)
(* src/app.py's PhantomController with its run_automation threads, a       *)
(* separate program whose state stays at "no controller" in the others.    *)
(***************************************************************************)
EXTENDS Integers, Sequences, FiniteSets, TLC

\* ------------------------------------------------------------------ bounds
MaxThreads == 2      \* automation_loop threads alive at once
MaxRunCount == 2     \* largest "How many activations?" the user enters
MaxLogs == 1         \* newest entries of st.session_state.logs kept in `logs`
MaxTicks == 2        \* seconds slept after a stop request that `cancel` counts
MaxWorkers == 2      \* src/app.py: run_automation threads alive at once
MaxLaunchCount == 3  \* src/app.py: largest launch_count a launch is still issued at

\* ------------------------------------------------------- program constants
MinRunCount == 1     \* number_input min_value of run_count
MinPollSeconds == 5  \* number_input min_value (and step) of poll_seconds

Threads == 1..MaxThreads
None == "None"

\* The status strings the service reports; "finished" stands for every
\* status that is not one of the three busy ones.
StatusStrings == {"running", "launching", "waiting", "finished"}
ActiveStatuses == {"running", "launching", "waiting"}

\* What a GET agents/fetch can come back as: a transport failure, a non-200
\* answer, a 200 whose body has no data.status, a 200 whose "data" is null or
\* not an object, or a 200 carrying a status string.
StatusResponses ==
    {"transport_error", "http_error", "no_status", "bad_body"} \cup StatusStrings

\* What a POST agents/launch can come back as.
LaunchResponses == {"ok200", "http_error", "transport_error"}

RunCounts == MinRunCount..MaxRunCount
\* run_count as automation_loop's own parameter: any int, 0 included.
LoopRunCounts == 0..MaxRunCount
PollSecondsChoices == {MinPollSeconds}

VARIABLES
    is_running,        \* st.session_state.is_running
    stop_flag,         \* st.session_state.stop_flag
    activations_done,  \* st.session_state.activations_done
    logs,              \* st.session_state.logs (its newest MaxLogs entries)
    thread,            \* st.session_state.thread: a thread id, or 0 for None
    frame,             \* frame[t]: thread t's position in automation_loop and its locals
    ui,                \* the script run: "idle", or "status" while its status request is in flight
    launch_base,       \* history: activations_done when thread t issued its launch request
    cancel,            \* history: where the loop was when stop_flag was set, and what it did since
    launched,          \* history (single-run specifications): launch requests that returned True
    controller,        \* src/app.py: st.session_state.controller: None, or the object's attributes
    worker             \* src/app.py: worker[w]: run_automation thread w's position and locals

vars == <<is_running, stop_flag, activations_done, logs, thread, frame, ui,
          launch_base, cancel, launched, controller, worker>>

session == <<is_running, stop_flag, activations_done, logs, thread>>

\* The state of src/app.py's program, which shares nothing with part_000's.
app == <<controller, worker>>

\* ---------------------------------------------------------------- helpers

\* log(msg): append one line to st.session_state.logs.
log(l, msg) ==
    IF Len(l) < MaxLogs THEN Append(l, msg) ELSE Append(Tail(l), msg)

\* get_phantom_status's return value for a response: the status string of a
\* 200 with data.status, None for everything else that returns.
get_phantom_status(resp) ==
    IF resp \in StatusStrings THEN resp ELSE None

\* The responses on which get_phantom_status raises instead of returning:
\* data.get("data", {}) is not a dict, so .get("status") raises AttributeError,
\* which `except requests.RequestException` does not catch.
StatusRaises(resp) == resp = "bad_body"

\* The lines get_phantom_status logs for a response.
StatusLogged(l, resp) ==
    CASE resp = "http_error" -> log(l, "status_http_failed")
      [] resp = "transport_error" -> log(l, "status_error")
      [] OTHER -> l

\* launch_phantom's return value, and the line it logs.
launch_phantom(resp) == IF resp = "ok200" THEN "True" ELSE "False"

LaunchLogged(l, resp) ==
    CASE resp = "http_error" -> log(l, "launch_http_failed")
      [] resp = "transport_error" -> log(l, "launch_error")
      [] OTHER -> l

NoFrame ==
    [pc |-> "none", run_count |-> 0, poll_seconds |-> 0, idle_only |-> FALSE,
     status |-> None, ok |-> None, acc |-> 0, slept |-> 0]

NewFrame(rc, ps, io) ==
    [pc |-> "begin", run_count |-> rc, poll_seconds |-> ps, idle_only |-> io,
     status |-> None, ok |-> None, acc |-> 0, slept |-> 0]

NoCancel == [at |-> "none", ticks |-> 0]

\* Thread t is inside the while loop of automation_loop (lines 84-119).
LoopPcs ==
    {"while_stop", "while_count", "status_inflight", "sleep_unknown",
     "launch_inflight", "inc_read", "inc_write", "wait_check", "wait_sleep"}

InLoop(t) == frame[t].pc \in LoopPcs

Alive(t) == frame[t].pc # "none"

\* One more launch request returned True (counted up to MaxRunCount + 1).
Counted(n) == IF n > MaxRunCount THEN n ELSE n + 1

\* src/app.py: PhantomController.__init__ (lines 9-22); thread is a worker id,
\* or 0 for None.
NewController ==
    [is_active |-> FALSE, launch_count |-> 0, max_launches |-> 0,
     automation_running |-> FALSE, thread |-> 0]

Workers == 1..MaxWorkers

\* src/app.py: a run_automation thread that does not exist, and its locals;
\* `response` (history) is what the cycle's status request came back as, and
\* `acc` the value `self.launch_count += 1` has loaded.
NoWorker == [pc |-> "none", current_status |-> FALSE, response |-> None, acc |-> 0]

\* One more second slept since stop_flag was set (counted up to MaxTicks).
Ticked ==
    IF cancel.at = "none" \/ cancel.ticks >= MaxTicks
      THEN cancel ELSE [cancel EXCEPT !.ticks = @ + 1]

\* --------------------------------------------------------------- init_state
Init ==
    /\ is_running = FALSE
    /\ stop_flag = FALSE
    /\ activations_done = 0
    /\ logs = <<>>
    /\ thread = 0
    /\ frame = [t \in Threads |-> NoFrame]
    /\ ui = "idle"
    /\ launch_base = [t \in Threads |-> 0]
    /\ cancel = NoCancel
    /\ launched = 0
    /\ controller = None
    /\ worker = <<>>

\* ------------------------------------------- automation_loop, one thread t

\* Mutant: the count test lets one activation too many through.
BelowTarget_Inclusive(done, rc) == done <= rc

\* The second conjunct of the while condition (line 84).
BelowTarget(done, rc) == done < rc

\* Mutant: the None check is missing.
IsUnknown_Never(status) == FALSE

\* `if status is None` (line 86): the cycle sleeps and retries, launching nothing.
IsUnknown(status) == status = None

\* The launch policy (lines 92-93, 104-105): with idle_only every status but
\* "running" launches; without it every status launches.
ShouldLaunch(io, status) == IF io THEN status # "running" ELSE TRUE

\* Mutant: the wait does not look at stop_flag.
WaitContinues_NoStop(slept, ps, sf) == slept < ps

\* The condition of the cancellable wait (line 117).
WaitContinues(slept, ps, sf) == slept < ps /\ ~sf

\* Mutant: every launch attempt is counted.
CountsLaunch_Always(ok) == TRUE

\* `if ok:` (lines 97, 109): only a launch that returned True is counted.
CountsLaunch(ok) == ok = "True"

\* The value `activations_done += 1` stores, from the value it loaded (line 98, 110).
Incremented(loaded) == loaded + 1

\* line 82
Begin(t) ==
    /\ frame[t].pc = "begin"
    /\ logs' = log(logs, "thread_started")
    /\ frame' = [frame EXCEPT ![t].pc = "while_stop"]
    /\ UNCHANGED <<is_running, stop_flag, activations_done, thread, ui, launch_base, cancel, launched, app>>

\* Mutant: the loop test does not look at stop_flag.
WhileStop_IgnoresStop(t) ==
    /\ frame[t].pc = "while_stop"
    /\ frame' = [frame EXCEPT ![t].pc = "while_count",
                              ![t].status = None, ![t].ok = None, ![t].slept = 0]
    /\ launch_base' = [launch_base EXCEPT ![t] = 0]
    /\ UNCHANGED <<session, ui, cancel, launched, app>>

\* line 84, `not st.session_state.stop_flag`; a new cycle starts here.
WhileStop(t) ==
    /\ frame[t].pc = "while_stop"
    /\ frame' = [frame EXCEPT ![t].pc = IF stop_flag THEN "fin_running" ELSE "while_count",
                              ![t].status = None, ![t].ok = None, ![t].slept = 0]
    /\ launch_base' = [launch_base EXCEPT ![t] = 0]
    /\ UNCHANGED <<session, ui, cancel, launched, app>>

\* line 84, `st.session_state.activations_done < run_count`, and when it holds
\* line 85 up to the point where the status request is on the wire.
WhileCount(t) ==
    /\ frame[t].pc = "while_count"
    /\ IF BelowTarget(activations_done, frame[t].run_count)
          THEN frame' = [frame EXCEPT ![t].pc = "status_inflight"]
          ELSE frame' = [frame EXCEPT ![t].pc = "fin_running"]
    /\ UNCHANGED <<session, ui, launch_base, cancel, launched, app>>

\* lines 85-95 and 104-108: the status request returns (or raises); an
\* Unknown read goes to the sleep; otherwise the policy decides, the cycle's
\* line is logged, and a launch request, if any, is put on the wire.
StatusReturns(t, resp) ==
    /\ frame[t].pc = "status_inflight"
    /\  LET status == get_phantom_status(resp)
             l1 == StatusLogged(logs, resp)
         IN  IF StatusRaises(resp)
               THEN /\ frame' = [frame EXCEPT ![t].pc = "except_log"]
                    /\ UNCHANGED <<logs, launch_base>>
               ELSE IF IsUnknown(status)
               THEN /\ frame' = [frame EXCEPT ![t].pc = "sleep_unknown",
                                              ![t].status = status, ![t].slept = 0]
                    /\ logs' = l1
                    /\ UNCHANGED launch_base
               ELSE IF ShouldLaunch(frame[t].idle_only, status)
               THEN /\ frame' = [frame EXCEPT ![t].pc = "launch_inflight",
                                              ![t].status = status]
                    /\ logs' = log(l1, "launching")
                    /\ launch_base' = [launch_base EXCEPT ![t] = activations_done]
               ELSE /\ frame' = [frame EXCEPT ![t].pc = "wait_check", ![t].slept = 0]
                    /\ logs' = log(l1, "waiting")
                    /\ UNCHANGED launch_base
    /\ UNCHANGED <<is_running, stop_flag, activations_done, thread, ui, cancel, launched, app>>

\* The service answers the status request with any of its responses.
StatusResponse(t) == \E resp \in StatusResponses : StatusReturns(t, resp)

\* lines 88-89: time.sleep(poll_seconds), one second per step, then `continue`.
SleepUnknown(t) ==
    /\ frame[t].pc = "sleep_unknown"
    /\ frame' = [frame EXCEPT ![t].slept = @ + 1,
                              ![t].pc = IF frame[t].slept + 1 >= frame[t].poll_seconds
                                          THEN "while_stop" ELSE "sleep_unknown"]
    /\ cancel' = Ticked
    /\ UNCHANGED <<session, ui, launch_base, launched, app>>

\* lines 96-97, 100-101, 108-109, 112-113: the launch request returns;
\* launch_phantom logs its own failure line and hands back ok, and on a
\* failure the loop logs its line and goes to the wait.  (The history
\* variable `launched` is set by the action that uses this one.)
LaunchReturns(t, resp) ==
    /\ frame[t].pc = "launch_inflight"
    /\  LET ok == launch_phantom(resp)
         IN  /\ frame' = [frame EXCEPT ![t].ok = ok, ![t].status = None, ![t].slept = 0,
                                       ![t].pc = IF CountsLaunch(ok) THEN "inc_read" ELSE "wait_check"]
             /\ logs' = IF CountsLaunch(ok) THEN logs
                        ELSE log(LaunchLogged(logs, resp), "launch_failed")
    /\ UNCHANGED <<is_running, stop_flag, activations_done, thread, ui, launch_base, cancel, app>>

\* The service answers the launch request with any of its responses.
LaunchResponse(t) ==
    \E resp \in LaunchResponses : LaunchReturns(t, resp) /\ UNCHANGED launched

\* The same step in the specifications of a single run, which count in
\* `launched` the launch requests that returned True.
LaunchCounted(t, resp) ==
    /\ LaunchReturns(t, resp)
    /\ launched' = IF launch_phantom(resp) = "True" THEN Counted(launched) ELSE launched

\* lines 98, 110: `activations_done += 1` loads the attribute ...
IncRead(t) ==
    /\ frame[t].pc = "inc_read"
    /\ frame' = [frame EXCEPT ![t].acc = activations_done, ![t].pc = "inc_write"]
    /\ UNCHANGED <<session, ui, launch_base, cancel, launched, app>>

\* ... and stores the sum; lines 99, 111 log the success.
IncWrite(t) ==
    /\ frame[t].pc = "inc_write"
    /\ activations_done' = Incremented(frame[t].acc)
    /\ logs' = log(logs, "launch_ok")
    /\ frame' = [frame EXCEPT ![t].acc = 0, ![t].pc = "wait_check", ![t].slept = 0]
    /\ UNCHANGED <<is_running, stop_flag, thread, ui, launch_base, cancel, launched, app>>

\* line 117
WaitCheck(t) ==
    /\ frame[t].pc = "wait_check"
    /\ frame' = [frame EXCEPT ![t].pc =
                     IF WaitContinues(frame[t].slept, frame[t].poll_seconds, stop_flag)
                       THEN "wait_sleep" ELSE "while_stop"]
    /\ UNCHANGED <<session, ui, launch_base, cancel, launched, app>>

\* lines 118-119
WaitSleep(t) ==
    /\ frame[t].pc = "wait_sleep"
    /\ frame' = [frame EXCEPT ![t].slept = @ + 1, ![t].pc = "wait_check"]
    /\ cancel' = Ticked
    /\ UNCHANGED <<session, ui, launch_base, launched, app>>

\* Mutant: the exception is not caught and ends the thread.
ExceptLog_Propagates(t) ==
    /\ frame[t].pc = "except_log"
    /\ frame' = [frame EXCEPT ![t] = NoFrame]
    /\ UNCHANGED <<session, ui, launch_base, cancel, launched, app>>

\* lines 121-122
ExceptLog(t) ==
    /\ frame[t].pc = "except_log"
    /\ logs' = log(logs, "unexpected_error")
    /\ frame' = [frame EXCEPT ![t].pc = "fin_running"]
    /\ UNCHANGED <<is_running, stop_flag, activations_done, thread, ui, launch_base, cancel, launched, app>>

\* line 124; nothing after it reads the loop's locals.
FinRunning(t) ==
    /\ frame[t].pc = "fin_running"
    /\ is_running' = FALSE
    /\ frame' = [frame EXCEPT ![t] = [NoFrame EXCEPT !.pc = "fin_thread"]]
    /\ launch_base' = [launch_base EXCEPT ![t] = 0]
    /\ cancel' = NoCancel
    /\ UNCHANGED <<stop_flag, activations_done, logs, thread, ui, launched, app>>

\* lines 125-126; the thread function returns.
FinThread(t) ==
    /\ frame[t].pc = "fin_thread"
    /\ thread' = 0
    /\ logs' = log(logs, "thread_stopped")
    /\ frame' = [frame EXCEPT ![t] = NoFrame]
    /\ UNCHANGED <<is_running, stop_flag, activations_done, ui, launch_base, cancel, launched, app>>

automation_loop(t) ==
    \/ Begin(t) \/ WhileStop(t) \/ WhileCount(t) \/ StatusResponse(t)
    \/ SleepUnknown(t) \/ LaunchResponse(t) \/ IncRead(t) \/ IncWrite(t)
    \/ WaitCheck(t) \/ WaitSleep(t)
    \/ ExceptLog(t) \/ FinRunning(t) \/ FinThread(t)

\* --------------------------------------------------- the script's handlers

\* Where the running loop is, as the stop handler finds it.
LoopPhase ==
    IF \E t \in Threads : frame[t].pc \in {"wait_check", "wait_sleep"} THEN "wait"
    ELSE IF \E t \in Threads : frame[t].pc = "sleep_unknown" THEN "unknown_sleep"
    ELSE "other"

\* The least thread id not in use.
FreeThread == CHOOSE t \in Threads : ~Alive(t) /\ \A u \in Threads : ~Alive(u) => t <= u

\* Mutant: start does not look at is_running.
StartRefused_Never(running) == FALSE

\* `if st.session_state.is_running` (line 167): start refuses while a loop runs.
StartRefused(running) == running

\* What the rest of the script run does after the handlers (lines 207-212):
\* with credentials entered and the last check more than 5 s old it fetches
\* the status itself.
AfterHandlers(fetch) == IF fetch THEN "status" ELSE "idle"

\* lines 157-160
clear_btn(fetch) ==
    /\ ui = "idle"
    /\ logs' = log(<<>>, "logs_cleared")
    /\ activations_done' = 0
    /\ ui' = AfterHandlers(fetch)
    /\ UNCHANGED <<is_running, stop_flag, thread, frame, launch_base, cancel, launched, app>>

\* lines 162-164; pressed while nothing runs it does nothing.
stop_btn(fetch) ==
    /\ ui = "idle"
    /\ is_running
    /\ stop_flag' = TRUE
    /\ logs' = log(logs, "stop_requested")
    /\ cancel' = IF stop_flag THEN cancel ELSE [at |-> LoopPhase, ticks |-> 0]
    /\ ui' = AfterHandlers(fetch)
    /\ UNCHANGED <<is_running, activations_done, thread, frame, launch_base, launched, app>>

\* Mutant: the refused start withdraws a pending stop request.
start_btn_running_Restarts(fetch) ==
    /\ ui = "idle"
    /\ StartRefused(is_running)
    /\ stop_flag' = FALSE
    /\ logs' = log(logs, "already_running")
    /\ ui' = AfterHandlers(fetch)
    /\ UNCHANGED <<is_running, activations_done, thread, frame, launch_base, cancel, launched, app>>

\* lines 166-168: start pressed while is_running.
start_btn_running(fetch) ==
    /\ ui = "idle"
    /\ StartRefused(is_running)
    /\ logs' = log(logs, "already_running")
    /\ ui' = AfterHandlers(fetch)
    /\ UNCHANGED <<is_running, stop_flag, activations_done, thread, frame, launch_base, cancel, launched, app>>

\* Mutant: start leaves stop_flag and the count as the last run left them.
start_btn_KeepsFlags(rc, ps, io) ==
    /\ ui = "idle"
    /\ ~StartRefused(is_running)
    /\ \E t \in Threads : ~Alive(t)
    /\ is_running' = TRUE
    /\ thread' = FreeThread
    /\ frame' = [frame EXCEPT ![FreeThread] = NewFrame(rc, ps, io)]
    /\ cancel' = NoCancel
    /\ ui' = "started"
    /\ UNCHANGED <<stop_flag, activations_done, logs, launch_base, launched, app>>

\* lines 169-185: start pressed while nothing runs, with both credentials
\* entered (without them st.error shows and no state changes); the thread is
\* started before line 186 logs.
start_btn(rc, ps, io) ==
    /\ ui = "idle"
    /\ ~StartRefused(is_running)
    /\ \E t \in Threads : ~Alive(t)
    /\ stop_flag' = FALSE
    /\ is_running' = TRUE
    /\ activations_done' = 0
    /\ thread' = FreeThread
    /\ frame' = [frame EXCEPT ![FreeThread] = NewFrame(rc, ps, io)]
    /\ cancel' = NoCancel
    /\ ui' = "started"
    /\ UNCHANGED <<logs, launch_base, launched, app>>

\* line 186, then the rest of the script run (credentials are entered).
start_logged(fetch) ==
    /\ ui = "started"
    /\ logs' = log(logs, "automation_started")
    /\ ui' = AfterHandlers(fetch)
    /\ UNCHANGED <<is_running, stop_flag, activations_done, thread, frame, launch_base, cancel, launched, app>>

\* A rerun no button caused (a widget edited) that reaches line 209.
rerun ==
    /\ ui = "idle"
    /\ ui' = "status"
    /\ UNCHANGED <<session, frame, launch_base, cancel, launched, app>>

\* lines 209-210: the script's own status request returns; a raise ends the
\* script run with the error shown.
ui_status ==
    /\ ui = "status"
    /\ logs' \in {IF StatusRaises(resp) THEN logs ELSE StatusLogged(logs, resp) :
                      resp \in StatusResponses}
    /\ ui' = "idle"
    /\ UNCHANGED <<is_running, stop_flag, activations_done, thread, frame, launch_base, cancel, launched, app>>

Script ==
    \/ \E fetch \in BOOLEAN : clear_btn(fetch)
    \/ \E fetch \in BOOLEAN : stop_btn(fetch)
    \/ \E fetch \in BOOLEAN : start_btn_running(fetch)
    \/ \E rc \in RunCounts, ps \in PollSecondsChoices, io \in BOOLEAN : start_btn(rc, ps, io)
    \/ \E fetch \in BOOLEAN : start_logged(fetch)
    \/ rerun
    \/ ui_status

Next == Script \/ \E t \in Threads : automation_loop(t)

Spec == Init /\ [][Next]_vars

\* The loop thread is scheduled and its blocking calls return: the HTTP
\* requests carry timeout=30 and the sleeps are finite.
SpecFair == Spec /\ \A t \in Threads : WF_vars(automation_loop(t))

\* ------------------------------------- automation_loop called on its own
\* The state the start handler leaves (lines 173-185), with the arguments
\* ranging over the function's whole domain; the only other party is the
\* stop request.
InitLoop ==
    /\ is_running = TRUE
    /\ stop_flag = FALSE
    /\ activations_done = 0
    /\ logs = <<>>
    /\ thread = 1
    /\ \E rc \in LoopRunCounts, ps \in PollSecondsChoices, io \in BOOLEAN :
         frame = [t \in Threads |-> IF t = 1 THEN NewFrame(rc, ps, io) ELSE NoFrame]
    /\ ui = "idle"
    /\ launch_base = [t \in Threads |-> 0]
    /\ cancel = NoCancel
    /\ launched = 0
    /\ controller = None
    /\ worker = <<>>

NextLoop == stop_btn(FALSE) \/ \E t \in Threads : automation_loop(t)

SpecLoop == InitLoop /\ [][NextLoop]_vars

\* ------------------------------------------- one run, left to itself
\* The state the start handler leaves for a run with idle_only checked; no
\* button is pressed, every status request comes back with a status string
\* and every launch request with a 200.
InitQuiet ==
    /\ is_running = TRUE
    /\ stop_flag = FALSE
    /\ activations_done = 0
    /\ logs = <<>>
    /\ thread = 1
    /\ \E rc \in RunCounts, ps \in PollSecondsChoices :
         frame = [t \in Threads |-> IF t = 1 THEN NewFrame(rc, ps, TRUE) ELSE NoFrame]
    /\ ui = "idle"
    /\ launch_base = [t \in Threads |-> 0]
    /\ cancel = NoCancel
    /\ launched = 0
    /\ controller = None
    /\ worker = <<>>

QuietLoop(t) ==
    \/ Begin(t) \/ WhileStop(t) \/ WhileCount(t)
    \/ \E resp \in StatusStrings : StatusReturns(t, resp)
    \/ LaunchCounted(t, "ok200")
    \/ IncRead(t) \/ IncWrite(t) \/ WaitCheck(t) \/ WaitSleep(t)
    \/ FinRunning(t) \/ FinThread(t)

NextQuiet == \E t \in Threads : QuietLoop(t)

SpecQuiet == InitQuiet /\ [][NextQuiet]_vars

\* ------------------------------------------- one run, with the script
\* The state the start handler leaves at line 185, its arguments as the
\* widgets give them, and from there the one run it started: the loop thread
\* and every handler that acts while it runs (a start is refused until the
\* run has stopped).
InitRun ==
    /\ is_running = TRUE
    /\ stop_flag = FALSE
    /\ activations_done = 0
    /\ logs = <<>>
    /\ thread = 1
    /\ \E rc \in RunCounts, ps \in PollSecondsChoices, io \in BOOLEAN :
         frame = [t \in Threads |-> IF t = 1 THEN NewFrame(rc, ps, io) ELSE NoFrame]
    /\ ui = "started"
    /\ launch_base = [t \in Threads |-> 0]
    /\ cancel = NoCancel
    /\ launched = 0
    /\ controller = None
    /\ worker = <<>>

RunLoop(t) ==
    \/ Begin(t) \/ WhileStop(t) \/ WhileCount(t) \/ StatusResponse(t)
    \/ SleepUnknown(t)
    \/ \E resp \in LaunchResponses : LaunchCounted(t, resp)
    \/ IncRead(t) \/ IncWrite(t) \/ WaitCheck(t) \/ WaitSleep(t)
    \/ ExceptLog(t) \/ FinRunning(t) \/ FinThread(t)

NextRun ==
    \/ \E fetch \in BOOLEAN : start_logged(fetch)
    \/ \E fetch \in BOOLEAN : clear_btn(fetch)
    \/ \E fetch \in BOOLEAN : stop_btn(fetch)
    \/ \E fetch \in BOOLEAN : start_btn_running(fetch)
    \/ rerun
    \/ ui_status
    \/ \E t \in Threads : RunLoop(t)

SpecRun == InitRun /\ [][NextRun]_vars

\* ------------------------------------------- src/app.py: PhantomController
\* One controller object (created by "Save Configuration"), its
\* start_automation and stop_automation called as the sidebar calls them,
\* and the run_automation threads start_automation spawns.  The Manual
\* Control buttons are not pressed; st.error only displays.

\* "Number of times to activate" (min_value=0), up to the largest modelled.
MaxLaunchesChoices == 0..MaxRunCount

\* check_status (lines 24-45): True for a 200 whose status is one of the three
\* active ones; False for every other 200, for a non-200 and for an exception.
check_status(resp) == resp \in ActiveStatuses

\* check_status stores self.is_active only on a 200 whose body parses to an
\* object (lines 32-38); a 200 without "status" reads as 'unknown'.
CheckStoresActive(resp) == resp \in StatusStrings \cup {"no_status"}

\* launch_phantom of src/app.py (lines 47-65).
controller_launch_phantom(resp) == resp = "ok200"

\* The while condition's second conjunct (line 73).
MoreLaunches(max, count) == max = 0 \/ count < max

\* Worker w is inside the while loop of run_automation (lines 72-83).
WorkerLoopPcs ==
    {"while_running", "while_launches", "check_inflight", "launch_inflight",
     "count_read", "count_write", "sleep"}

WorkerLooping(w) == worker[w].pc \in WorkerLoopPcs

FreeWorker ==
    CHOOSE w \in Workers :
        worker[w].pc = "none" /\ \A v \in Workers : worker[v].pc = "none" => w <= v

\* The state "Save Configuration" leaves (line 136): a new controller, no
\* run_automation thread.
InitController ==
    /\ is_running = FALSE
    /\ stop_flag = FALSE
    /\ activations_done = 0
    /\ logs = <<>>
    /\ thread = 0
    /\ frame = [t \in Threads |-> NoFrame]
    /\ ui = "idle"
    /\ launch_base = [t \in Threads |-> 0]
    /\ cancel = NoCancel
    /\ launched = 0
    /\ controller = NewController
    /\ worker = [w \in Workers |-> NoWorker]

\* lines 67-90, called as in line 153: only when automation_running is False.
start_automation(max_launches) ==
    /\ ~controller.automation_running
    /\ \E w \in Workers : worker[w].pc = "none"
    /\ controller' = [controller EXCEPT !.max_launches = max_launches,
                                        !.automation_running = TRUE,
                                        !.thread = FreeWorker]
    /\ worker' = [worker EXCEPT ![FreeWorker] = [NoWorker EXCEPT !.pc = "while_running"]]
    /\ UNCHANGED <<session, frame, ui, launch_base, cancel, launched>>

\* lines 92-93, called as in line 158: only when automation_running is True.
stop_automation ==
    /\ controller.automation_running
    /\ controller' = [controller EXCEPT !.automation_running = FALSE]
    /\ UNCHANGED <<session, frame, ui, launch_base, cancel, launched, worker>>

\* line 72, `self.automation_running`; a new cycle starts here.
WhileRunning(w) ==
    /\ worker[w].pc = "while_running"
    /\ worker' = [worker EXCEPT ![w].pc = IF controller.automation_running
                                            THEN "while_launches" ELSE "exit",
                                ![w].current_status = FALSE, ![w].response = None]
    /\ UNCHANGED <<session, frame, ui, launch_base, cancel, launched, controller>>

\* line 73, then line 76 up to the point where the status request is on the wire.
WhileLaunches(w) ==
    /\ worker[w].pc = "while_launches"
    /\ worker' = [worker EXCEPT ![w].pc =
                      IF MoreLaunches(controller.max_launches, controller.launch_count)
                        THEN "check_inflight" ELSE "exit"]
    /\ UNCHANGED <<session, frame, ui, launch_base, cancel, launched, controller>>

\* lines 76-80: check_status returns; `if not current_status` puts the launch
\* request on the wire (while launch_count is below the modelled bound).
CheckReturns(w, resp) ==
    /\ worker[w].pc = "check_inflight"
    /\ ~check_status(resp) => controller.launch_count < MaxLaunchCount
    /\ controller' = IF CheckStoresActive(resp)
                       THEN [controller EXCEPT !.is_active = check_status(resp)]
                       ELSE controller
    /\ worker' = [worker EXCEPT ![w].current_status = check_status(resp),
                                ![w].response = resp,
                                ![w].pc = IF ~check_status(resp)
                                            THEN "launch_inflight" ELSE "sleep"]
    /\ UNCHANGED <<session, frame, ui, launch_base, cancel, launched>>

\* lines 49-65: the launch request returns; a 200 sets is_active.
LaunchPhantomReturns(w, resp) ==
    /\ worker[w].pc = "launch_inflight"
    /\ controller' = IF controller_launch_phantom(resp)
                       THEN [controller EXCEPT !.is_active = TRUE]
                       ELSE controller
    /\ worker' = [worker EXCEPT ![w].pc = IF controller_launch_phantom(resp)
                                            THEN "count_read" ELSE "sleep"]
    /\ UNCHANGED <<session, frame, ui, launch_base, cancel, launched>>

\* line 57: `self.launch_count += 1` loads the attribute ...
CountRead(w) ==
    /\ worker[w].pc = "count_read"
    /\ worker' = [worker EXCEPT ![w].acc = controller.launch_count, ![w].pc = "count_write"]
    /\ UNCHANGED <<session, frame, ui, launch_base, cancel, launched, controller>>

\* ... and stores the sum.
CountWrite(w) ==
    /\ worker[w].pc = "count_write"
    /\ controller' = [controller EXCEPT !.launch_count = worker[w].acc + 1]
    /\ worker' = [worker EXCEPT ![w].acc = 0, ![w].pc = "sleep"]
    /\ UNCHANGED <<session, frame, ui, launch_base, cancel, launched>>

\* line 83: time.sleep(self.status_check_interval).
Sleep(w) ==
    /\ worker[w].pc = "sleep"
    /\ worker' = [worker EXCEPT ![w].pc = "while_running",
                                ![w].current_status = FALSE, ![w].response = None]
    /\ UNCHANGED <<session, frame, ui, launch_base, cancel, launched, controller>>

\* line 85, and the thread function returns.
Exit(w) ==
    /\ worker[w].pc = "exit"
    /\ controller' = [controller EXCEPT !.automation_running = FALSE]
    /\ worker' = [worker EXCEPT ![w] = NoWorker]
    /\ UNCHANGED <<session, frame, ui, launch_base, cancel, launched>>

run_automation(w) ==
    \/ WhileRunning(w) \/ WhileLaunches(w)
    \/ \E resp \in StatusResponses : CheckReturns(w, resp)
    \/ \E resp \in LaunchResponses : LaunchPhantomReturns(w, resp)
    \/ CountRead(w) \/ CountWrite(w) \/ Sleep(w) \/ Exit(w)

NextController ==
    \/ \E max_launches \in MaxLaunchesChoices : start_automation(max_launches)
    \/ stop_automation
    \/ \E w \in Workers : run_automation(w)

SpecController == InitController /\ [][NextController]_vars

\* ------------------------------------------------------------------ claims

\* Thread t has entered automation_loop and not yet left its while loop.
AtLoop(t) == frame[t].pc \in LoopPcs \cup {"begin"}

\* C1: a launch request is on the wire only in a cycle whose poll returned a
\* status string, and a cycle whose poll returned None goes to its sleep
\* with no launch issued and no launch outcome.
C1_NoLaunchOnUnknown ==
    \A t \in Threads :
        /\ frame[t].pc = "launch_inflight" => frame[t].status \in StatusStrings
        /\ frame[t].pc = "sleep_unknown" => frame[t].status = None /\ frame[t].ok = None

\* C1 witness: an Unknown cycle in the middle of its sleep.
C1_Witness ==
    \E t \in Threads : frame[t].pc = "sleep_unknown" /\ frame[t].slept > 0

\* C2: while a loop runs, activations_done is at most the run_count it was
\* started with.
C2_DoneAtMostRunCount ==
    \A t \in Threads : AtLoop(t) => activations_done <= frame[t].run_count

\* C2 witness: a running loop whose count has reached its target.
C2_Witness ==
    \E t \in Threads :
        /\ InLoop(t)
        /\ frame[t].run_count = MaxRunCount
        /\ activations_done = frame[t].run_count

\* C3 (as claimed): no step taken while a loop runs lowers activations_done.
C3_NonDecreasing ==
    [][(\E t \in Threads : AtLoop(t)) => activations_done' >= activations_done]_vars

C5_NoLaunchWhenActive ==
    \A t \in Threads :
        (frame[t].idle_only /\ frame[t].status \in ActiveStatuses)
            => frame[t].pc # "launch_inflight"

C7_Rank(pc) ==
    CASE pc = "wait_sleep" -> 4
      [] pc = "wait_check" -> 3
      [] pc = "while_stop" -> 2
      [] pc = "fin_running" -> 1
      [] OTHER -> 0

C7_Safe ==
    cancel.at = "wait" =>
        /\ cancel.ticks <= 1
        /\ \A t \in Threads :
              frame[t].pc \in {"none", "wait_check", "wait_sleep", "while_stop",
                               "fin_running", "fin_thread"}
        /\ \E t \in Threads : C7_Rank(frame[t].pc) > 0 /\ ENABLED automation_loop(t)

C7_Step ==
    cancel.at = "wait" =>
        \A t \in Threads :
            (C7_Rank(frame[t].pc) > 0 /\ frame'[t] # frame[t])
                => /\ C7_Rank(frame'[t].pc) < C7_Rank(frame[t].pc)
                   /\ C7_Rank(frame'[t].pc) = 0 => ~is_running'

\* C7: after a stop request that found the loop in its cancellable wait, the
\* loop sleeps at most one more second, has no request on the wire and is at
\* no statement but the wait, the loop test and the exit; its thread can
\* always step, and each of its steps is one statement nearer to Stopped,
\* which it reaches with is_running False after at most four of them.
C7_StopDuringWait == []C7_Safe /\ [][C7_Step]_vars

\* C7, as a liveness property of SpecFair: the stopped loop reaches Stopped.
C7_ReachesStopped == (cancel.at = "wait") ~> ~is_running

\* C7 witness: the one second slept after the stop request.
C7_Witness ==
    /\ cancel.at = "wait"
    /\ cancel.ticks = 1
    /\ \E t \in Threads : frame[t].pc = "while_stop" /\ frame[t].slept < frame[t].poll_seconds

\* C8 (as claimed): after a stop request that found the loop in the sleep of
\* an Unknown read, the loop sleeps at most one more second.
C8_UnknownSleepCancellable ==
    cancel.at = "unknown_sleep" => cancel.ticks <= 1

\* C9: at most one thread is at or inside the polling loop.
C9_OneLoopThread ==
    Cardinality({t \in Threads : AtLoop(t)}) <= 1

\* C9 witness: a new loop runs while the previous thread has not yet returned.
C9_Witness ==
    \E t, u \in Threads : frame[t].pc = "fin_thread" /\ InLoop(u)

\* C10 (as claimed): no launch request is on the wire together with a status
\* request, the script's own included.
C10_NoConcurrentRequests ==
    ~ \E t \in Threads :
        /\ frame[t].pc = "launch_inflight"
        /\ (ui = "status" \/ \E u \in Threads : frame[u].pc = "status_inflight")

\* C11 (as claimed): a press of Clear Logs leaves an empty log and
\* activations_done = 0, and a press that follows one changes nothing in the
\* session state.
C11_ClearTwiceEmptyLog ==
    [][(\E fetch \in BOOLEAN : clear_btn(fetch))
          => /\ logs' = <<>>
             /\ activations_done' = 0
             /\ (logs = <<>> /\ activations_done = 0) => session' = session]_vars

\* C12: the step that creates a loop thread leaves activations_done = 0 and
\* stop_flag = FALSE whatever they were; a thread that has not yet entered
\* its loop finds the count 0, and finds stop_flag set only by a stop request
\* made after its own start.
C12_StartResets ==
    /\ [][(\E t \in Threads : frame[t].pc = "none" /\ frame'[t].pc = "begin")
             => (activations_done' = 0 /\ stop_flag' = FALSE)]_vars
    /\ [](\A t \in Threads :
             frame[t].pc = "begin"
                 => /\ activations_done = 0
                    /\ stop_flag => cancel.at # "none")

\* C12 witness: a start accepted after a stopped run: the stop request's line
\* is still the newest of the log, the stopped thread has not yet returned,
\* and the new thread begins with stop_flag FALSE.
C12_Witness ==
    /\ ui = "started"
    /\ logs = <<"stop_requested">>
    /\ ~stop_flag
    /\ activations_done = 0
    /\ \E t, u \in Threads : frame[t].pc = "fin_thread" /\ frame[u].pc = "begin"

\* C13: start pressed while is_running appends its one log line and changes
\* nothing else: no thread is created, and is_running, stop_flag,
\* activations_done and the thread handle keep their values.
C13_RefusedStartOnlyLogs ==
    [][(\E fetch \in BOOLEAN : start_btn_running(fetch))
          => /\ logs' = log(logs, "already_running")
             /\ UNCHANGED <<is_running, stop_flag, activations_done, thread, frame>>]_vars

\* C13 witness: a refused start has logged its line while a stop request is
\* pending on the running loop.
C13_Witness ==
    /\ logs = <<"already_running">>
    /\ is_running
    /\ stop_flag
    /\ \E t \in Threads : InLoop(t)

\* C14 (as claimed): whatever the status request comes back as, the loop
\* goes on: to the launch, to the wait or to the Unknown sleep.
C14_StatusNeverStopsLoop ==
    [][\A t \in Threads :
          frame[t].pc = "status_inflight"
              => frame'[t].pc \in {"status_inflight", "sleep_unknown",
                                   "launch_inflight", "wait_check"}]_vars

\* C15 (as claimed): a run left to itself with idle_only puts no launch on
\* the wire in a cycle whose poll was Active, and leaves its loop with
\* activations_done = run_count after exactly run_count launch requests.
C15_QuietRunLaunchesToTarget ==
    \A t \in Threads :
        /\ frame[t].status \in ActiveStatuses => frame[t].pc # "launch_inflight"
        /\ frame[t].pc = "fin_running"
              => /\ activations_done = frame[t].run_count
                 /\ launched = frame[t].run_count

\* The most steps a thread with frame f still takes before line 124 has set
\* is_running False, once stop_flag is set: the rest of its cycle (the status
\* request, the launch and its count, or the whole sleep of an Unknown read),
\* one look at the wait's test, one at the loop's test, and the exit.
C16_Rank(f) ==
    CASE f.pc = "while_count" -> 9 + f.poll_seconds
      [] f.pc = "status_inflight" -> 8 + f.poll_seconds
      [] f.pc = "sleep_unknown" -> 2 + (f.poll_seconds - f.slept)
      [] f.pc = "launch_inflight" -> 6
      [] f.pc = "inc_read" -> 5
      [] f.pc = "inc_write" -> 4
      [] f.pc = "wait_sleep" -> 4
      [] f.pc = "wait_check" -> 3
      [] f.pc = "begin" -> 3
      [] f.pc = "while_stop" -> 2
      [] f.pc = "except_log" -> 2
      [] f.pc = "fin_running" -> 1
      [] OTHER -> 0

C16_Safe ==
    (stop_flag /\ is_running) =>
        \E t \in Threads : C16_Rank(frame[t]) > 0 /\ ENABLED automation_loop(t)

C16_Step ==
    /\ (stop_flag /\ is_running) =>
          /\ stop_flag' \/ ~is_running'
          /\ \A t \in Threads :
                (frame'[t] # frame[t] /\ C16_Rank(frame[t]) > 0)
                    => /\ C16_Rank(frame'[t]) < C16_Rank(frame[t])
                       /\ C16_Rank(frame'[t]) = 0 => ~is_running'
    /\ \A t \in Threads :
          (frame'[t] # frame[t] /\ frame[t].pc \in {"fin_running", "fin_thread"})
              => frame'[t].pc \in {"fin_thread", "none"}

\* C16: while a stop request is pending on a running loop, the loop's thread
\* can always step, every one of its steps takes it nearer to line 124, where
\* is_running becomes False, and no step of the script (start, clear, another
\* stop) withdraws the request or moves the thread back; a thread that has
\* left its loop never re-enters it.  A fairly scheduled thread therefore
\* reaches Stopped within C16_Rank steps.
C16_StopReachesStopped == []C16_Safe /\ [][C16_Step]_vars

\* C16, as a liveness property of SpecFair.
C16_EventuallyStopped == (stop_flag /\ is_running) ~> ~is_running

\* C16 witness: a loop that was stopped has set is_running False although
\* Clear Logs was pressed after the stop request.
C16_Witness ==
    /\ stop_flag
    /\ ~is_running
    /\ logs = <<"logs_cleared">>
    /\ \E t \in Threads : frame[t].pc = "fin_thread"

C17_Step ==
    \A t \in Threads :
        /\ (InLoop(t) /\ frame'[t].pc \notin LoopPcs)
              => frame'[t].pc \in {"except_log", "fin_running"}
        /\ (frame[t].pc = "except_log" /\ frame'[t] # frame[t])
              => /\ frame'[t].pc = "fin_running"
                 /\ logs' = log(logs, "unexpected_error")
        /\ (frame[t].pc = "fin_running" /\ frame'[t] # frame[t])
              => /\ frame'[t].pc = "fin_thread"
                 /\ ~is_running'
        /\ (frame[t].pc = "fin_thread" /\ frame'[t] # frame[t])
              => /\ frame'[t].pc = "none"
                 /\ thread' = 0
                 /\ logs' = log(logs, "thread_stopped")

\* C17: a thread leaves its loop only to line 124 (target reached or stop
\* seen) or to the except clause (a raise in the body); the except clause
\* logs the fault and goes on to line 124; line 124 sets is_running False;
\* then the thread clears the handle, appends the "stopped" line as the
\* newest entry of the log, and returns.
C17_EveryExitStops == [][C17_Step]_vars

\* C17 witness: a raise in the loop body was caught and logged, and its
\* thread has set is_running False and is about to clear the handle.
C17_Witness ==
    /\ ~is_running
    /\ logs = <<"unexpected_error">>
    /\ \E t \in Threads : frame[t].pc = "fin_thread"

\* C18 (as claimed): at most one run_automation thread is inside its loop.
C18_OneWorkerLooping ==
    Cardinality({w \in Workers : WorkerLooping(w)}) <= 1

\* C19 (as claimed): the loop puts a launch request on the wire only in a
\* cycle whose status request was answered 200 with a readable body that
\* reports the agent as not active.
C19_NoLaunchOnFailedCheck ==
    \A w \in Workers :
        worker[w].pc = "launch_inflight"
            => /\ CheckStoresActive(worker[w].response)
               /\ worker[w].response \notin ActiveStatuses

\* C20 (as claimed): the launch requests of a run that returned True are at
\* most the run's run_count.
C20_LaunchesAtMostRunCount ==
    \A t \in Threads : AtLoop(t) => launched <= frame[t].run_count

====
